---- MODULE Spec2Model ----
(***************************************************************************)
(* Model of datumaro's project command line context                        *)
(* (datumaro/cli/contexts/project/__init__.py) and of the annotation       *)
(* comparison engine it drives through Comparator / DiffVisualizer.        *)
(*                                                                         *)
(* Two specifications:                                                     *)
(*   Spec       - the command handlers (import, extract, merge, diff,      *)
(*                transform) run one after another on a small filesystem.  *)
(*   EngineSpec - the per-item comparison (confidence filter + greedy      *)
(*                matcher) applied to bounded annotation lists and to      *)
(*                their permutations.                                      *)
(***************************************************************************)
EXTENDS Integers, Sequences, FiniteSets

VARIABLES
    args,        \* the parsed argparse namespace of the last command run
    calls,       \* the collaborator calls the last command made, in order
    result,      \* how the last command ended: "ok" (return 0) or the exception raised
    comparator,  \* the Comparator the last command constructed (diff only)
    fs,          \* the directories the commands look at: absent / empty / files / project
    proj,        \* content version of the projects stored in "cwd" and "other"
    refs,        \* engine: reference annotations of the item, in list order
    cands,       \* engine: candidate annotations of the item, in list order
    iou_threshold,   \* engine: Comparator.iou_threshold, in tenths
    conf_threshold,  \* engine: Comparator.conf_threshold, in tenths
    mres,        \* engine: the MatchResult of comparing the lists as given
    pres         \* engine: the pairs, by identity, of comparing the permuted lists

cliVars == <<args, calls, result, comparator, fs, proj>>
engineVars == <<refs, cands, iou_threshold, conf_threshold, mres, pres>>
vars == <<args, calls, result, comparator, fs, proj,
          refs, cands, iou_threshold, conf_threshold, mres, pres>>

(***************************************************************************)
(* Bounds                                                                  *)
(***************************************************************************)
\* how many times a stored project may be rewritten in one behaviour
MaxVersion == 1
\* total number of annotations (reference + candidate) of the compared item
MaxTotal == 3

(***************************************************************************)
(* Values                                                                  *)
(***************************************************************************)
None == "None"
BOOL == {TRUE, FALSE}

\* directories of the modelled filesystem; "cwd" is '.', the default project dir
Dirs == {"cwd", "other", "out"}
ProjectDirs == {"cwd", "other"}
\* a directory is "absent", "empty", holds "files", or holds a "project"

\* thresholds in tenths: -0.1, 0.5 (the default), 1.0, 1.1
ThresholdInputs == {0 - 1, 5, 10, 11}

Call(op, on, arg) == [op |-> op, on |-> on, arg |-> arg]

Called(op) == \E i \in 1..Len(calls) : calls[i].op = op
CalledOn(op, on) == \E i \in 1..Len(calls) : calls[i].op = op /\ calls[i].on = on
CountCalls(ops) == Cardinality({i \in 1..Len(calls) : calls[i].op \in ops})

NoComparator == [made |-> FALSE, iou_threshold |-> 0, conf_threshold |-> 0]

\* what a handler run produces
Outcome(r, c, f, p, k) ==
    [result |-> r, calls |-> c, fs |-> f, proj |-> p, comparator |-> k]

(***************************************************************************)
(* os / os.path as the handlers use them                                   *)
(***************************************************************************)
\* osp.isdir(d) and os.listdir(d)
IsNonEmptyDir(f, d) == f[d] \in {"files", "project"}
\* osp.isdir(d)
IsDir(f, d) == f[d] # "absent"
\* osp.isfile(make_project_path(d))
HasProjectFile(f, d) == f[d] = "project"
\* osp.abspath(None) raises TypeError
AbspathRaises(p) == p = None

(***************************************************************************)
(* import                                                                  *)
(***************************************************************************)
\* the namespaces build_import_parser can produce ('--dest' defaults to '.')
build_import_parser ==
    [command : {"import"}, dst_dir : {"cwd", "out"}, overwrite : BOOL,
     copy : BOOL, skip_check : BOOL]

\* faulty variant: the condition without its "or args.copy"
import_needs_dataset_nocopy(a) == ~a.skip_check

\* "if not args.skip_check or args.copy:" - whether "Checking the dataset..."
\* is logged and project.make_dataset() is called
import_needs_dataset(a) == ~a.skip_check \/ a.copy

\* faulty variant: saves the project as well after cloning the data
import_persist_both(a) ==
    IF a.copy
    THEN <<Call("dataset.save", "project", "merge,save_images"),
           Call("project.save", "project", "-")>>
    ELSE <<Call("project.save", "project", "-")>>

\* "if args.copy: dataset.save(merge=True, save_images=True) else: project.save()"
import_persist(a) ==
    IF a.copy
    THEN <<Call("dataset.save", "project", "merge,save_images")>>
    ELSE <<Call("project.save", "project", "-")>>

\* the directory preparation shared by create_command and import_command:
\* refuse a non-empty directory unless --overwrite, else remove it; then
\* os.makedirs(project_dir, exist_ok=args.overwrite); then refuse an existing
\* project file unless --overwrite
prepare_project_dir(a, f) ==
    LET d == a.dst_dir IN
    IF IsNonEmptyDir(f, d) /\ ~a.overwrite
    THEN [result |-> "CliException", calls |-> <<>>, fs |-> f]
    ELSE
      LET c1 == IF IsNonEmptyDir(f, d)
                THEN <<Call("rmtree", "fs", d)>> ELSE <<>>
          f1 == IF IsNonEmptyDir(f, d) THEN [f EXCEPT ![d] = "absent"] ELSE f
      IN
      IF IsDir(f1, d) /\ ~a.overwrite
      THEN [result |-> "FileExistsError", calls |-> c1, fs |-> f1]
      ELSE
        LET c2 == Append(c1, Call("makedirs", "fs", d))
            f2 == IF IsDir(f1, d) THEN f1 ELSE [f1 EXCEPT ![d] = "empty"]
        IN
        IF ~a.overwrite /\ HasProjectFile(f2, d)
        THEN [result |-> "CliException", calls |-> c2, fs |-> f2]
        ELSE [result |-> "ok", calls |-> c2, fs |-> f2]

import_run(a, f, p) ==
    LET prep == prepare_project_dir(a, f) IN
    IF prep.result # "ok"
    THEN Outcome(prep.result, prep.calls, prep.fs, p, NoComparator)
    ELSE
      LET c1 == Append(prep.calls, Call("import_from", "source", "-"))
          c2 == IF import_needs_dataset(a)
                THEN Append(c1, Call("make_dataset", "project", "check"))
                ELSE c1
          c3 == c2 \o import_persist(a)
          d  == a.dst_dir
      IN Outcome("ok", c3, [prep.fs EXCEPT ![d] = "project"],
                 IF d \in ProjectDirs THEN [p EXCEPT ![d] = @ + 1] ELSE p,
                 NoComparator)

Finish(o) ==
    /\ result' = o.result
    /\ calls' = o.calls
    /\ fs' = o.fs
    /\ proj' = o.proj
    /\ comparator' = o.comparator

import_command ==
    \E a \in build_import_parser :
        /\ a.dst_dir \in ProjectDirs => proj[a.dst_dir] < MaxVersion
        /\ args' = a
        /\ Finish(import_run(a, fs, proj))
        /\ UNCHANGED engineVars

(***************************************************************************)
(* extract                                                                 *)
(***************************************************************************)
\* the namespaces build_extract_parser can produce ('--dest' defaults to None)
build_extract_parser ==
    [command : {"extract"}, dst_dir : {None, "out", "cwd"},
     project_dir : ProjectDirs, dry_run : BOOL,
     filter_annotations : BOOL, remove_empty : BOOL]

\* "kwargs = {}; if args.filter_annotations: kwargs['remove_empty'] = ..."
extract_kwargs(a) ==
    IF a.filter_annotations
    THEN (IF a.remove_empty THEN "remove_empty=True" ELSE "remove_empty=False")
    ELSE "-"

extract_run(a, f, p) ==
    LET c0 == <<Call("load_project", a.project_dir, "-")>> IN
    IF AbspathRaises(a.dst_dir)
    THEN Outcome("TypeError", c0, f, p, NoComparator)
    ELSE
      LET d == a.dst_dir IN
      IF ~a.dry_run /\ IsDir(f, d)
      THEN Outcome("FileExistsError", c0, f, p, NoComparator)
      ELSE
        LET c1 == IF a.dry_run THEN c0
                  ELSE Append(c0, Call("makedirs", "fs", d))
            f1 == IF a.dry_run THEN f ELSE [f EXCEPT ![d] = "empty"]
            c2 == Append(c1, Call("make_dataset", a.project_dir, "-"))
        IN
        IF a.dry_run
        THEN Outcome("ok",
                     c2 \o <<Call("extract", a.project_dir, extract_kwargs(a)),
                             Call("print", "stdout", "xml")>>,
                     f1, p, NoComparator)
        ELSE Outcome("ok",
                     Append(c2, Call("extract_project", a.project_dir,
                                     extract_kwargs(a))),
                     [f1 EXCEPT ![d] = "project"], p, NoComparator)

extract_command ==
    \E a \in build_extract_parser :
        /\ args' = a
        /\ Finish(extract_run(a, fs, proj))
        /\ UNCHANGED engineVars

(***************************************************************************)
(* transform                                                               *)
(***************************************************************************)
\* the namespaces build_transform_parser can produce ('--dest' defaults to None)
build_transform_parser ==
    [command : {"transform"}, dst_dir : {None, "out", "cwd"},
     project_dir : ProjectDirs]

transform_run(a, f, p) ==
    LET c0 == <<Call("load_project", a.project_dir, "-")>> IN
    IF AbspathRaises(a.dst_dir)
    THEN Outcome("TypeError", c0, f, p, NoComparator)
    ELSE
      LET d == a.dst_dir IN
      \* "if dst_dir is not None:" always holds for a path abspath returned
      IF IsDir(f, d)
      THEN Outcome("FileExistsError", c0, f, p, NoComparator)
      ELSE Outcome("ok",
                   c0 \o <<Call("makedirs", "fs", d),
                           Call("make_dataset", a.project_dir, "-"),
                           Call("transform_project", a.project_dir, d)>>,
                   [f EXCEPT ![d] = "project"], p, NoComparator)

transform_command ==
    \E a \in build_transform_parser :
        /\ args' = a
        /\ Finish(transform_run(a, fs, proj))
        /\ UNCHANGED engineVars

(***************************************************************************)
(* merge                                                                   *)
(***************************************************************************)
\* the namespaces build_merge_parser can produce
build_merge_parser ==
    [command : {"merge"}, dst_dir : {None, "out", "cwd"},
     project_dir : ProjectDirs, other_project_dir : ProjectDirs]

\* where first_dataset.save(save_dir=dst_dir) writes: the project's own
\* directory when dst_dir is None
merge_target(a) == IF a.dst_dir = None THEN a.project_dir ELSE a.dst_dir

merge_run(a, f, p) ==
    LET t == merge_target(a) IN
    Outcome("ok",
            <<Call("load_project", a.project_dir, "-"),
              Call("load_project", a.other_project_dir, "-"),
              Call("make_dataset", a.project_dir, "-"),
              Call("make_dataset", a.other_project_dir, "-"),
              Call("update", a.project_dir, a.other_project_dir),
              Call("save", a.project_dir, a.dst_dir)>>,
            [f EXCEPT ![t] = "project"],
            IF t \in ProjectDirs THEN [p EXCEPT ![t] = @ + 1] ELSE p,
            NoComparator)

merge_command ==
    \E a \in build_merge_parser :
        /\ merge_target(a) \in ProjectDirs => proj[merge_target(a)] < MaxVersion
        /\ args' = a
        /\ Finish(merge_run(a, fs, proj))
        /\ UNCHANGED engineVars

(***************************************************************************)
(* diff                                                                    *)
(***************************************************************************)
\* DiffVisualizer.Format: a text summary, a per-item visual overlay, a
\* structured export of the report
Formats == {"text", "visual", "structured"}
\* the visual / file-based formats, which need a destination
FileFormats == {"visual", "structured"}

\* the namespaces build_diff_parser can produce: '--dest' defaults to None,
\* the thresholds are any float; there is no '--overwrite' option
build_diff_parser ==
    [command : {"diff"}, dst_dir : {None, "out", "cwd"},
     project_dir : ProjectDirs, other_project_dir : ProjectDirs,
     output_format : Formats,
     iou_thresh : ThresholdInputs, conf_thresh : ThresholdInputs]

\* a threshold (in tenths) lies in [0,1]
InRange(t) == 0 <= t /\ t <= 10

\* "comparator = Comparator(iou_threshold=args.iou_thresh,
\*                          conf_threshold=args.conf_thresh)"
diff_comparator(a) ==
    [made |-> TRUE, iou_threshold |-> a.iou_thresh,
     conf_threshold |-> a.conf_thresh]

\* faulty variant: falls back to a default output directory
diff_save_dir_default(a) == IF a.dst_dir = None THEN "out" ELSE a.dst_dir

\* "save_dir = args.dst_dir"
diff_save_dir(a) == a.dst_dir

\* faulty variant: merges the second dataset into the first before comparing
diff_datasets_update(a) ==
    <<Call("make_dataset", a.project_dir, "-"),
      Call("make_dataset", a.other_project_dir, "-"),
      Call("update", a.project_dir, a.other_project_dir)>>

\* the arguments of save_dataset_diff: "first_project.make_dataset(),
\* second_project.make_dataset()"
diff_datasets(a) ==
    <<Call("make_dataset", a.project_dir, "-"),
      Call("make_dataset", a.other_project_dir, "-")>>

\* DiffVisualizer(save_dir, comparator, output_format): a file-based format
\* without a destination is refused
DiffVisualizer_refuses(save_dir, fmt) == save_dir = None /\ fmt \in FileFormats

\* Comparator.compare refuses thresholds outside [0,1] before comparing
Comparator_refuses(k) == ~InRange(k.iou_threshold) \/ ~InRange(k.conf_threshold)

\* DiffVisualizer.save_dataset_diff: compare the datasets, then render the
\* report - to standard output without a destination, else into save_dir
save_dataset_diff(save_dir, k, fmt, f) ==
    LET c0 == <<Call("save_dataset_diff", "visualizer", fmt)>> IN
    IF Comparator_refuses(k)
    THEN [result |-> "InvalidThreshold", calls |-> c0, fs |-> f]
    ELSE
      LET c1 == c0 \o <<Call("compare", "comparator", "-"),
                        Call("render", "visualizer", fmt)>>
      IN IF save_dir = None
         THEN [result |-> "ok",
               calls |-> Append(c1, Call("print", "stdout", fmt)), fs |-> f]
         ELSE [result |-> "ok",
               calls |-> Append(c1, Call("write", "fs", save_dir)),
               fs |-> [f EXCEPT ![save_dir] = "files"]]

diff_run(a, f, p) ==
    LET c0 == <<Call("load_project", a.project_dir, "-"),
                Call("load_project", a.other_project_dir, "-"),
                Call("Comparator", "comparator", "-")>>
        k == diff_comparator(a)
        save_dir == diff_save_dir(a)
    IN
    IF save_dir # None /\ IsDir(f, save_dir)
    THEN Outcome("FileExistsError", c0, f, p, k)
    ELSE
      LET c1 == IF save_dir # None
                THEN Append(c0, Call("makedirs", "fs", save_dir)) ELSE c0
          f1 == IF save_dir # None THEN [f EXCEPT ![save_dir] = "empty"] ELSE f
          c2 == Append(c1, Call("DiffVisualizer", "visualizer", a.output_format))
      IN
      IF DiffVisualizer_refuses(save_dir, a.output_format)
      THEN Outcome("DestinationRequired", c2, f1, p, k)
      ELSE
        LET c3 == c2 \o diff_datasets(a)
            s == save_dataset_diff(save_dir, k, a.output_format, f1)
        IN Outcome(s.result, c3 \o s.calls, s.fs, p, k)

diff_command ==
    \E a \in build_diff_parser :
        /\ args' = a
        /\ Finish(diff_run(a, fs, proj))
        /\ UNCHANGED engineVars

(***************************************************************************)
(* Comparison engine: Geometry, Matcher, per-item Comparator               *)
(***************************************************************************)
Max(x, y) == IF x >= y THEN x ELSE y
Min(x, y) == IF x <= y THEN x ELSE y

LabelNames == {"cat", "dog"}
\* boxes <<x, y, w, h>>: two unit squares side by side and the box covering both
Boxes == {<<0, 0, 1, 1>>, <<1, 0, 1, 1>>, <<0, 0, 2, 1>>}
NoBox == <<0, 0, 0, 0>>

\* reference annotations carry no confidence
RefAnnotations ==
    [kind : {"box"}, geometry : Boxes, label : LabelNames,
     has_conf : {FALSE}, conf : {0}]
    \cup [kind : {"label"}, geometry : {NoBox}, label : LabelNames,
          has_conf : {FALSE}, conf : {0}]

\* candidate boxes carry a confidence of 0.2 or 0.8
CandAnnotations ==
    [kind : {"box"}, geometry : Boxes, label : LabelNames,
     has_conf : {TRUE}, conf : {2, 8}]
    \cup [kind : {"label"}, geometry : {NoBox}, label : LabelNames,
          has_conf : {FALSE}, conf : {0}]

\* Annotation.confidence in tenths; absent is treated as 1.0
Confidence(a) == IF a.has_conf THEN a.conf ELSE 10

Area(b) == b[3] * b[4]

Intersection(a, b) ==
    Max(0, Min(a[1] + a[3], b[1] + b[3]) - Max(a[1], b[1]))
      * Max(0, Min(a[2] + a[4], b[2] + b[4]) - Max(a[2], b[2]))

\* Geometry.overlap: the IoU as the fraction num/den, or incomparable
\* for annotations of differing kinds
overlap(a, b) ==
    IF a.kind # b.kind
    THEN [comparable |-> FALSE, num |-> 0, den |-> 1]
    ELSE IF a.kind = "label"
    THEN [comparable |-> TRUE, num |-> IF a.label = b.label THEN 1 ELSE 0,
          den |-> 1]
    ELSE
      LET i == Intersection(a.geometry, b.geometry)
          u == Area(a.geometry) + Area(b.geometry) - i
      IN IF u = 0
         THEN [comparable |-> TRUE,
               num |-> IF a.geometry = b.geometry THEN 1 ELSE 0, den |-> 1]
         ELSE [comparable |-> TRUE, num |-> i, den |-> u]

\* overlap o is at least thr tenths
AtLeast(o, thr) == o.num * 10 >= thr * o.den
\* overlap o is strictly greater than / equal to overlap q
Greater(o, q) == o.num * q.den > q.num * o.den
Same(o, q) == o.num * q.den = q.num * o.den

\* Matcher step 1: the comparable pairs whose overlap reaches the threshold
candidate_pairs(reference, candidate, thr) ==
    {p \in (1..Len(reference)) \X (1..Len(candidate)) :
        LET o == overlap(reference[p[1]], candidate[p[2]])
        IN o.comparable /\ AtLeast(o, thr)}

\* faulty variant: the pairs are taken in index order, whatever their overlap
sorts_before_index_only(reference, candidate, p, q) ==
    \/ p[1] < q[1]
    \/ p[1] = q[1] /\ p[2] < q[2]

\* Matcher step 2: pair p sorts before pair q - overlap descending, then
\* reference index ascending, then candidate index ascending
sorts_before(reference, candidate, p, q) ==
    LET op == overlap(reference[p[1]], candidate[p[2]])
        oq == overlap(reference[q[1]], candidate[q[2]])
    IN \/ Greater(op, oq)
       \/ /\ Same(op, oq)
          /\ \/ p[1] < q[1]
             \/ p[1] = q[1] /\ p[2] < q[2]

\* faulty variant: every pair that reaches the threshold is accepted, claimed
\* endpoints or not
greedy_accept_all(reference, candidate, remaining, accepted) ==
    accepted \cup remaining

\* Matcher step 3: accept the first remaining pair whose endpoints are both
\* unclaimed, claim them, repeat
RECURSIVE greedy(_, _, _, _)
greedy(reference, candidate, remaining, accepted) ==
    LET eligible ==
          {p \in remaining :
              \A q \in accepted : q[1] # p[1] /\ q[2] # p[2]}
    IN IF eligible = {}
       THEN accepted
       ELSE LET best == CHOOSE p \in eligible :
                          \A q \in eligible \ {p} :
                              sorts_before(reference, candidate, p, q)
            IN greedy(reference, candidate, eligible \ {best},
                      accepted \cup {best})

\* Matcher.match: the pairing, split by label agreement (step 4), and the
\* indices never claimed (step 5)
match(reference, candidate, thr) ==
    LET accepted == greedy(reference, candidate,
                           candidate_pairs(reference, candidate, thr), {})
    IN [matches |->
          {p \in accepted : reference[p[1]].label = candidate[p[2]].label},
        label_mismatches |->
          {p \in accepted : reference[p[1]].label # candidate[p[2]].label},
        unmatched_reference |->
          {i \in 1..Len(reference) : \A p \in accepted : p[1] # i},
        unmatched_candidate |->
          {j \in 1..Len(candidate) : \A p \in accepted : p[2] # j}]

\* the indices of s, ascending, whose element satisfies keep
RECURSIVE kept_indices(_, _, _)
kept_indices(s, thr, k) ==
    IF k > Len(s) THEN <<>>
    ELSE IF Confidence(s[k]) >= thr
         THEN <<k>> \o kept_indices(s, thr, k + 1)
         ELSE kept_indices(s, thr, k + 1)

\* Comparator, for one item present on both sides: candidates below the
\* confidence threshold are left out of the matching and reported as
\* low-confidence; the Matcher runs on the surviving annotations
compare_item(reference, candidate, iou, conf) ==
    LET keep == kept_indices(candidate, conf, 1)
        surviving == [k \in 1..Len(keep) |-> candidate[keep[k]]]
        m == match(reference, surviving, iou)
    IN [done |-> TRUE,
        matches |-> {<<p[1], keep[p[2]]>> : p \in m.matches},
        label_mismatches |-> {<<p[1], keep[p[2]]>> : p \in m.label_mismatches},
        unmatched_reference |-> m.unmatched_reference,
        unmatched_candidate |-> {keep[j] : j \in m.unmatched_candidate},
        low_confidence |->
          {j \in 1..Len(candidate) : Confidence(candidate[j]) < conf}]

NoResult ==
    [done |-> FALSE, matches |-> {}, label_mismatches |-> {},
     unmatched_reference |-> {}, unmatched_candidate |-> {},
     low_confidence |-> {}]

\* the (reference, candidate) pairs of a result, matched or label-mismatched
Pairs(r) == r.matches \cup r.label_mismatches

(***************************************************************************)
(* Engine runs: the item's lists as given, and permuted                    *)
(***************************************************************************)
SeqsUpTo(S, n) == UNION {[1..k -> S] : k \in 0..n}

Permutations(n) ==
    {f \in [1..n -> 1..n] : \A i, j \in 1..n : f[i] = f[j] => i = j}

\* the list s reordered: position i holds the annotation that s holds at f[i]
Permuted(s, f) == [i \in 1..Len(s) |-> s[f[i]]]

IouThresholds == {5, 10}
ConfThresholds == {5}

NoPairs == [done |-> FALSE, pairs |-> {}]

\* compare the item's annotation lists in the order given
Compare ==
    /\ ~mres.done
    /\ mres' = compare_item(refs, cands, iou_threshold, conf_threshold)
    /\ UNCHANGED <<refs, cands, iou_threshold, conf_threshold, pres>>
    /\ UNCHANGED cliVars

\* compare the same annotations with both lists reordered; the pairs are
\* recorded by identity (the position the annotation has in the given list)
ComparePermuted ==
    /\ mres.done
    /\ \E fr \in Permutations(Len(refs)), fc \in Permutations(Len(cands)) :
         LET r == compare_item(Permuted(refs, fr), Permuted(cands, fc),
                               iou_threshold, conf_threshold)
         IN pres' = [done |-> TRUE,
                     pairs |-> {<<fr[p[1]], fc[p[2]]>> : p \in Pairs(r)}]
    /\ UNCHANGED <<refs, cands, iou_threshold, conf_threshold, mres>>
    /\ UNCHANGED cliVars

(***************************************************************************)
(* Specifications                                                          *)
(***************************************************************************)
NoArgs == [command |-> "none"]

CliIdle(out) ==
    /\ args = NoArgs
    /\ calls = <<>>
    /\ result = "none"
    /\ comparator = NoComparator
    /\ fs = [d \in Dirs |-> IF d = "out" THEN out ELSE "project"]
    /\ proj = [d \in ProjectDirs |-> 0]

EngineIdle ==
    /\ refs = <<>>
    /\ cands = <<>>
    /\ iou_threshold = 5
    /\ conf_threshold = 5
    /\ mres = NoResult
    /\ pres = NoPairs

Init ==
    /\ \E out \in {"absent", "empty", "files"} : CliIdle(out)
    /\ EngineIdle

Next ==
    \/ import_command
    \/ extract_command
    \/ merge_command
    \/ diff_command
    \/ transform_command

Spec == Init /\ [][Next]_vars

EngineInit ==
    /\ CliIdle("absent")
    /\ refs \in SeqsUpTo(RefAnnotations, MaxTotal)
    /\ cands \in SeqsUpTo(CandAnnotations, MaxTotal - Len(refs))
    /\ iou_threshold \in IouThresholds
    /\ conf_threshold \in ConfThresholds
    /\ mres = NoResult
    /\ pres = NoPairs

EngineNext ==
    \/ Compare
    \/ ComparePermuted

EngineSpec == EngineInit /\ [][EngineNext]_vars

(***************************************************************************)
(* Properties of the command handlers (checked under Spec)                 *)
(***************************************************************************)
IsDiff == args.command = "diff"

OutOfRange(a) == ~InRange(a.iou_thresh) \/ ~InRange(a.conf_thresh)

\* operations that change a project or the dataset made from it
MutatingOps ==
    {"save", "update", "export_project", "extract_project",
     "transform_project", "dataset.save", "project.save"}

\* C1: a diff run given a threshold outside [0,1] is rejected before the
\* comparison: save_dataset_diff / compare is not invoked, the run does not
\* succeed, and the Comparator does not hold a clamped value.
C1_ThresholdRejectedBeforeComparison ==
    (IsDiff /\ OutOfRange(args)) =>
        /\ ~Called("save_dataset_diff")
        /\ ~Called("compare")
        /\ result # "ok"
        /\ comparator.made =>
              /\ comparator.iou_threshold = args.iou_thresh
              /\ comparator.conf_threshold = args.conf_thresh

\* C2: a diff run with a destination is refused exactly when the destination
\* already exists with content and no overwrite mode was requested (the diff
\* parser offers no overwrite mode): an absent or empty destination is accepted.
C2_RefusedIffConflictingContent ==
    [][(args'.command = "diff" /\ args'.dst_dir # None) =>
          ((result' = "FileExistsError") <=> IsNonEmptyDir(fs, args'.dst_dir))]_vars

C4_DiffLeavesProjectsUnchanged ==
    [][args'.command = "diff" =>
          /\ \A i \in 1..Len(calls') : calls'[i].op \notin MutatingOps
          /\ proj' = proj
          /\ \A d \in Dirs : d # args'.dst_dir => fs'[d] = fs[d]]_vars

C4_Witness ==
    /\ IsDiff
    /\ result = "ok"
    /\ args.dst_dir = "out"
    /\ fs["out"] = "files"
    /\ CalledOn("make_dataset", args.project_dir)
    /\ CalledOn("make_dataset", args.other_project_dir)
    /\ proj["cwd"] > 0

\* C7: extract and transform run without --dest complete without error.
C7_OmittedDestCompletes ==
    (args.command \in {"extract", "transform"} /\ args.dst_dir = None) =>
        result = "ok"

PersistOps == {"dataset.save", "project.save"}

C9_DryRunOnlyPrints ==
    (args.command = "extract" /\ args.dry_run) =>
        /\ result = "ok"
        /\ Called("print")
        /\ ~Called("makedirs")
        /\ ~Called("extract_project")

(***************************************************************************)
(* Properties of the comparison engine (checked under EngineSpec)          *)
(***************************************************************************)
RefIndices == 1..Len(refs)
CandIndices == 1..Len(cands)

\* how many of the result's pairs hold reference index i / candidate index j
RefPairCount(r, i) == Cardinality({p \in Pairs(r) : p[1] = i})
CandPairCount(r, j) == Cardinality({p \in Pairs(r) : p[2] = j})

\* the result's pairs lie within the index ranges, and no pair is both a
\* match and a label mismatch
WellFormed(r) ==
    /\ Pairs(r) \subseteq RefIndices \X CandIndices
    /\ r.matches \cap r.label_mismatches = {}
    /\ r.unmatched_reference \subseteq RefIndices
    /\ r.unmatched_candidate \subseteq CandIndices

\* every reference index is paired exactly once or unmatched, never both
RefsPartitioned(r) ==
    \A i \in RefIndices :
        RefPairCount(r, i) + (IF i \in r.unmatched_reference THEN 1 ELSE 0) = 1

\* C5 as claimed: for the compared item, every reference index and every
\* candidate index appears in exactly one of matches, label_mismatches,
\* unmatched_reference / unmatched_candidate, paired at most once.
C5_FourCollectionsPartition ==
    mres.done =>
        /\ WellFormed(mres)
        /\ RefsPartitioned(mres)
        /\ \A j \in CandIndices :
              CandPairCount(mres, j)
                + (IF j \in mres.unmatched_candidate THEN 1 ELSE 0) = 1

\* C5 amended: every reference index appears in exactly one of matches,
\* label_mismatches, unmatched_reference, and every candidate index in
\* exactly one of matches, label_mismatches, unmatched_candidate and the
\* low-confidence collection, which holds exactly the candidates whose
\* confidence is below conf_threshold.
C5_PartitionWithLowConfidence ==
    mres.done =>
        /\ WellFormed(mres)
        /\ RefsPartitioned(mres)
        /\ \A j \in CandIndices :
              /\ CandPairCount(mres, j)
                   + (IF j \in mres.unmatched_candidate THEN 1 ELSE 0)
                   + (IF j \in mres.low_confidence THEN 1 ELSE 0) = 1
              /\ j \in mres.low_confidence
                   <=> Confidence(cands[j]) < conf_threshold

C5_Witness ==
    /\ mres.done
    /\ mres.low_confidence # {}
    /\ Pairs(mres) # {}

\* the pairs the matcher may accept for the item: the candidate survives the
\* confidence filter and the overlap reaches the threshold
EligiblePairs ==
    {p \in RefIndices \X CandIndices :
        /\ Confidence(cands[p[2]]) >= conf_threshold
        /\ LET o == overlap(refs[p[1]], cands[p[2]])
           IN o.comparable /\ AtLeast(o, iou_threshold)}

\* two eligible pairs that compete for an annotation have the same overlap
ConflictingTie ==
    \E p, q \in EligiblePairs :
        /\ p # q
        /\ p[1] = q[1] \/ p[2] = q[2]
        /\ Same(overlap(refs[p[1]], cands[p[2]]),
                overlap(refs[q[1]], cands[q[2]]))

====
